---- MODULE Spec2Model ----
(***************************************************************************)
(* Model of the intervalues crate: weighted intervals (interval.rs),       *)
(* plain intervals (base_interval.rs), the sweep-line combiner             *)
(* (combine_intervals.rs) and the resulting collection                     *)
(* (interval_collection.rs).  Bounds T and weights U are instantiated with *)
(* mathematical integers (the i64 instantiation of the tests, on values    *)
(* far from the overflow range).                                           *)
(***************************************************************************)
EXTENDS Integers, Sequences, FiniteSets, TLC

VARIABLES raw_ivs, ic, ret

vars == <<raw_ivs, ic, ret>>

\* ---------------------------------------------------------------- bounds
MaxLen == 2
MaxCoord == 3
MaxWeight == 1

Coords == 0..MaxCoord
\* weights of either sign and zero; larger negative weights arise as sums
Weights == (0 - 1)..MaxWeight
\* an elementary cell [k, k+1] of the bound domain is named by k
Cells == 0..(MaxCoord - 1)

\* ------------------------------------------------------------ interval.rs
\* a constructor that keeps the bounds in the order given
Interval_new_unswapped(lb, ub, val) == [lb |-> lb, ub |-> ub, val |-> val]

\* Interval::new: the bounds are swapped unless ub > lb, val is kept
Interval_new(lb, ub, val) ==
    IF ub > lb THEN [lb |-> lb, ub |-> ub, val |-> val]
               ELSE [lb |-> ub, ub |-> lb, val |-> val]

\* a tuple that counts the interval once, whatever its value
to_tuple_unit_weight(iv) == <<iv.lb, iv.ub, 1>>

to_tuple(iv) == <<iv.lb, iv.ub, iv.val>>

\* a width that counts both end points
get_width_inclusive(iv) == iv.ub - iv.lb + 1

\* self.ub - self.lb
get_width(iv) == iv.ub - iv.lb

\* membership that leaves the upper bound out
contains_half_open(self, num) == (num >= self.lb) /\ (num < self.ub)

\* Interval::contains
contains(self, num) == (num >= self.lb) /\ (num <= self.ub)

\* containment that needs room at both ends
superset_strict(self, other) == (other.ub < self.ub) /\ (other.lb > self.lb)

\* Interval::superset
superset(self, other) == (other.ub <= self.ub) /\ (other.lb >= self.lb)

left_overlaps(self, other) ==
    (self.lb <= other.lb) /\ (self.ub <= other.ub) /\ (other.lb <= self.ub)

right_overlaps(self, other) == left_overlaps(other, self)

overlaps(self, other) == left_overlaps(self, other) \/ right_overlaps(self, other)

\* a test that lets any two intervals that share a boundary be joined
can_join_any_value(self, other) ==
    IF (self.ub = other.lb) \/ (other.ub = self.lb) THEN TRUE
    ELSE IF (self.ub = other.ub) /\ (self.lb = other.lb) THEN TRUE
    ELSE FALSE

\* Interval::can_join
can_join(self, other) ==
    IF ((self.ub = other.lb) \/ (other.ub = self.lb)) /\ (self.val = other.val)
    THEN TRUE
    ELSE IF (self.ub = other.ub) /\ (self.lb = other.lb) THEN TRUE
    ELSE FALSE

\* a join that keeps the value of the argument in place of the receiver's
join_keeps_other(self, other) ==
    IF (self.ub = other.ub) /\ (self.lb = other.lb)
    THEN Interval_new(self.lb, self.ub, self.val + other.val)
    ELSE LET b == IF self.lb < other.lb THEN <<self.lb, other.ub>>
                                        ELSE <<other.lb, self.ub>>
         IN  Interval_new(b[1], b[2], other.val)

\* Interval::join
join(self, other) ==
    IF (self.ub = other.ub) /\ (self.lb = other.lb)
    THEN Interval_new(self.lb, self.ub, self.val + other.val)
    ELSE LET b == IF self.lb < other.lb THEN <<self.lb, other.ub>>
                                        ELSE <<other.lb, self.ub>>
         IN  Interval_new(b[1], b[2], self.val)

can_join_as_set(self, other) == overlaps(self, other)

join_ign_value(self, other) ==
    LET lb == IF self.lb < other.lb THEN self.lb ELSE other.lb
        ub == IF self.ub > other.ub THEN self.ub ELSE other.ub
    IN  Interval_new(lb, ub, 1)

\* U::to_usize on a value >= 1: the same number as an unsigned count
to_usize(val) == val

\* Interval::val_to_count
val_to_count(self) ==
    IF self.val >= 1 THEN Interval_new(self.lb, self.ub, to_usize(self.val))
                     ELSE Interval_new(self.lb, self.ub, 0)

\* ------------------------------------------------------- base_interval.rs
BaseInterval_new(lb, ub) ==
    IF ub > lb THEN [lb |-> lb, ub |-> ub] ELSE [lb |-> ub, ub |-> lb]

\* BaseInterval::left_overlaps
base_left_overlaps(self, other) ==
    (self.lb <= other.lb) /\ (self.ub <= other.ub) /\ (other.lb <= self.ub)

\* BaseInterval::right_overlaps
base_right_overlaps(self, other) == base_left_overlaps(other, self)

\* BaseInterval::overlaps
base_overlaps(self, other) ==
    base_left_overlaps(self, other) \/ base_right_overlaps(self, other)

\* BaseInterval::can_join
base_can_join(self, other) == IF base_overlaps(self, other) THEN TRUE ELSE FALSE

\* BaseInterval::join
base_join(self, other) ==
    IF (self.ub = other.ub) /\ (self.lb = other.lb)
    THEN BaseInterval_new(self.lb, self.ub)
    ELSE LET b == IF self.lb < other.lb THEN <<self.lb, other.ub>>
                                        ELSE <<other.lb, self.ub>>
         IN  BaseInterval_new(b[1], b[2])

to_base(iv) == BaseInterval_new(iv.lb, iv.ub)

\* -------------------------------------------------- combine_intervals.rs
\* DefaultHashMap<T, U>: a finite map; a key that is absent reads as U::default() = 0
EmptyMap == <<>>

map_get(m, k) == IF k \in DOMAIN m THEN m[k] ELSE 0

map_put(m, k, v) == [x \in (DOMAIN m) \cup {k} |-> IF x = k THEN v ELSE m[x]]

\* out[k] = v: what a plain assignment in place of += would do
add_assign_overwrites(m, k, v) == map_put(m, k, v)

\* out[this.0] += this.2
add_assign(m, k, v) == map_put(m, k, map_get(m, k) + v)

\* out[k] += v in place of -=: the upper bound is counted as a second start
sub_assign_adds(m, k, v) == map_put(m, k, map_get(m, k) + v)

\* out[this.1] -= this.2
sub_assign(m, k, v) == map_put(m, k, map_get(m, k) - v)

\* the for loop of intervals_to_points, from entry i on
RECURSIVE accumulate(_, _, _)
accumulate(input, i, out) ==
    IF i > Len(input) THEN out
    ELSE LET this == to_tuple(input[i])
             o1 == add_assign(out, this[1], this[3])
             o2 == sub_assign(o1, this[2], this[3])
         IN  accumulate(input, i + 1, o2)

\* a filter that keeps every entry of the map
keeps_all(delta) == TRUE

\* .filter(|x| *x.1 != U::zero())
keeps(delta) == delta # 0

Min(S) == CHOOSE x \in S : \A y \in S : x <= y
Max(S) == CHOOSE x \in S : \A y \in S : x >= y

\* a sort that leaves the points in descending order of coordinate
first_key_descending(S) == Max(S)

\* the key that out.sort_by(|a, b| a.0.partial_cmp(&b.0)) places first
first_key(S) == Min(S)

\* the entries of m with keys S as a Vec sorted by key; the keys of a map are
\* distinct, so the order the map is iterated in does not show in the result
RECURSIVE sort_by_key(_, _)
sort_by_key(S, m) ==
    IF S = {} THEN <<>>
    ELSE LET k == first_key(S)
         IN  <<<<k, m[k]>>>> \o sort_by_key(S \ {k}, m)

intervals_to_points(input) ==
    LET out == accumulate(input, 1, EmptyMap)
    IN  sort_by_key({k \in DOMAIN out : keeps(out[k])}, out)

\* a walk that pushes the delta of each point in place of the running total
cumulate_deltas(endpoints, i, curr_val, new_map) ==
    new_map \o SubSeq(endpoints, i, Len(endpoints))

\* "Convert point counts to cumulative point counts", from point i on
RECURSIVE cumulate(_, _, _, _)
cumulate(endpoints, i, curr_val, new_map) ==
    IF i > Len(endpoints) THEN new_map
    ELSE LET pt == endpoints[i]
             cv == curr_val + pt[2]
         IN  cumulate(endpoints, i + 1, cv, Append(new_map, <<pt[1], cv>>))

\* itertools tuple_windows: the consecutive pairs of s
tuple_windows(s) == [i \in 1..(Len(s) - 1) |-> <<s[i], s[i + 1]>>]

new_map_of(raw) == cumulate(intervals_to_points(raw), 1, 0, <<>>)

\* the value of the upper point of the window in place of the lower one
window_value_of_ub(lb, ub) == ub[2]

\* the value given to the interval of a window: lb.1
window_value(lb, ub) == lb[2]

\* every window is emitted
emits_always(lb) == TRUE

\* a test that drops the windows of negative value only
emits_nonnegative(lb) == lb[2] >= 0

\* if lb.1 != U::zero()
emits(lb) == lb[2] # 0

\* "Convert cumulative point counts to intervals", from window i on
RECURSIVE emit(_, _, _)
emit(windows, i, out) ==
    IF i > Len(windows) THEN out
    ELSE LET lb == windows[i][1]
             ub == windows[i][2]
         IN  IF emits(lb)
             THEN emit(windows, i + 1,
                       Append(out, Interval_new(lb[1], ub[1], window_value(lb, ub))))
             ELSE emit(windows, i + 1, out)

\* a constructor that brings its argument into combined form
from_vec_normalising(vec) ==
    [intervals |-> emit(tuple_windows(new_map_of(vec)), 1, <<>>)]

\* IntervalCollection::from_vec
from_vec(vec) == [intervals |-> vec]

to_vec(c) == c.intervals

combine_intervals(raw) == from_vec(emit(tuple_windows(new_map_of(raw)), 1, <<>>))

\* a window is emitted whenever its value is not zero
emits_in_set_nonzero(lb) == lb[2] # 0

\* if lb.1 > U::zero()
emits_in_set(lb) == lb[2] > 0

\* a run is never merged with the one before it
touches_never(x, lb) == FALSE

\* if x.get_ub() == lb.0
touches(x, lb) == x.ub = lb[1]

\* the emission loop of combine_as_set, from window i on
RECURSIVE emit_set(_, _, _)
emit_set(windows, i, out) ==
    IF i > Len(windows) THEN out
    ELSE LET lb == windows[i][1]
             ub == windows[i][2]
         IN  IF emits_in_set(lb)
             THEN IF Len(out) = 0
                  THEN emit_set(windows, i + 1,
                                Append(out, BaseInterval_new(lb[1], ub[1])))
                  ELSE LET x == out[Len(out)]
                       IN  IF touches(x, lb)
                           THEN emit_set(windows, i + 1,
                                    Append(SubSeq(out, 1, Len(out) - 1),
                                           BaseInterval_new(x.lb, ub[1])))
                           ELSE emit_set(windows, i + 1,
                                    Append(out, BaseInterval_new(lb[1], ub[1])))
             ELSE emit_set(windows, i + 1, out)

combine_as_set(raw) == emit_set(tuple_windows(new_map_of(raw)), 1, <<>>)

\* ----------------------------------------------------------------- lib.rs
\* the isize variant on [lb, ub, weight] triples
\* a sign that takes the bounds to be in ascending order always
mult_one(entry) == 1

\* let mult = if entry[0] > entry[1] { -1 } else { 1 }
mult(entry) == IF entry[1] > entry[2] THEN 0 - 1 ELSE 1

\* the for loop of intervals_values_to_points, from entry i on
RECURSIVE accumulate_values(_, _, _)
accumulate_values(input, i, out) ==
    IF i > Len(input) THEN out
    ELSE LET entry == input[i]
             o1 == add_assign(out, entry[1], mult(entry) * entry[3])
             o2 == sub_assign(o1, entry[2], mult(entry) * entry[3])
         IN  accumulate_values(input, i + 1, o2)

\* the order of out.sort() on (coordinate, delta) pairs: by coordinate, then
\* by delta
pair_le(p, q) == (p[1] < q[1]) \/ (p[1] = q[1] /\ p[2] <= q[2])

\* out.sort(): the pairs of S in ascending order
RECURSIVE sort(_)
sort(S) ==
    IF S = {} THEN <<>>
    ELSE LET p == CHOOSE x \in S : \A y \in S : pair_le(x, y)
         IN  <<p>> \o sort(S \ {p})

intervals_values_to_points(input) ==
    LET out == accumulate_values(input, 1, EmptyMap)
    IN  sort({<<k, out[k]>> : k \in {x \in DOMAIN out : out[x] # 0}})

\* "Convert point counts to cumulative point counts" of
\* combine_intervals_values, from point i on
RECURSIVE cumulate_values(_, _, _, _)
cumulate_values(endpoints, i, curr_val, new_map) ==
    IF i > Len(endpoints) THEN new_map
    ELSE LET pt == endpoints[i]
             cv == curr_val + pt[2]
         IN  cumulate_values(endpoints, i + 1, cv, Append(new_map, <<pt[1], cv>>))

\* "Convert cumulative point counts to intervals" of combine_intervals_values,
\* from window i on; out is a HashMap from (lb, ub) to the value
RECURSIVE insert_values(_, _, _)
insert_values(windows, i, out) ==
    IF i > Len(windows) THEN out
    ELSE LET lb == windows[i][1]
             ub == windows[i][2]
         IN  IF lb[2] # 0
             THEN insert_values(windows, i + 1, map_put(out, <<lb[1], ub[1]>>, lb[2]))
             ELSE insert_values(windows, i + 1, out)

combine_intervals_values(raw) ==
    LET endpoints == intervals_values_to_points(raw)
        new_map == cumulate_values(endpoints, 1, 0, <<>>)
    IN  insert_values(tuple_windows(new_map), 1, EmptyMap)

\* ------------------------------------------------ interval_collection.rs
\* the for loop of to_vec_as_set, from interval i on
RECURSIVE set_walk(_, _, _, _)
set_walk(intervals, i, this_interval, new) ==
    IF i > Len(intervals) THEN Append(new, to_base(this_interval))
    ELSE LET next_interval == intervals[i]
         IN  IF can_join_as_set(this_interval, next_interval)
             THEN set_walk(intervals, i + 1,
                           join_ign_value(this_interval, next_interval), new)
             ELSE set_walk(intervals, i + 1, next_interval,
                           Append(new, to_base(this_interval)))

to_vec_as_set(c) ==
    IF Len(c.intervals) = 0 THEN <<>>
    ELSE set_walk(c.intervals, 2, c.intervals[1], <<>>)

\* one term of total_value: cast_into(x.get_width()) * x.get_value()
value_of(iv) == get_width(iv) * iv.val

RECURSIVE sum_values(_, _)
sum_values(intervals, i) ==
    IF i > Len(intervals) THEN 0
    ELSE value_of(intervals[i]) + sum_values(intervals, i + 1)

total_value(c) == sum_values(c.intervals, 1)

\* IntervalCollection::new
IntervalCollection_new == [intervals |-> <<>>]

\* the outcome of a call: a value, or a panic that returns nothing
Returned(v) == [panic |-> FALSE, val |-> v]
Panicked == [panic |-> TRUE, val |-> <<>>]

\* an accessor that answers T::zero() on an empty collection
get_lb_or_zero(c) ==
    IF Len(c.intervals) = 0 THEN Returned(0) ELSE Returned(c.intervals[1].lb)

\* get_lb: self.intervals[0] panics when there is no element
get_lb(c) ==
    IF Len(c.intervals) = 0 THEN Panicked ELSE Returned(c.intervals[1].lb)

\* get_ub: last() is None on an empty Vec and unwrap() panics
get_ub(c) ==
    IF Len(c.intervals) = 0 THEN Panicked
    ELSE Returned(c.intervals[Len(c.intervals)].ub)

\* get_bounds: both reads of the two accessors in one tuple
get_bounds(c) ==
    IF Len(c.intervals) = 0 THEN Panicked
    ELSE Returned(<<c.intervals[1].lb, c.intervals[Len(c.intervals)].ub>>)

\* IntervalCollection::len
len(c) == Len(c.intervals)

\* the for loop of contains_num, from interval i on
RECURSIVE contains_num_from(_, _, _)
contains_num_from(intervals, i, num) ==
    IF i > Len(intervals) THEN FALSE
    ELSE IF contains(intervals[i], num) THEN TRUE
    ELSE contains_num_from(intervals, i + 1, num)

contains_num(c, num) == contains_num_from(c.intervals, 1, num)

\* a scan from the end of the collection: the last interval that contains num
RECURSIVE get_value_from_end(_, _, _)
get_value_from_end(intervals, i, num) ==
    IF i < 1 THEN 0
    ELSE IF contains(intervals[i], num) THEN intervals[i].val
    ELSE get_value_from_end(intervals, i - 1, num)

\* the value of the last interval that contains num
get_value_of_last(c, num) == get_value_from_end(c.intervals, Len(c.intervals), num)

\* the for loop of get_value, from interval i on
RECURSIVE get_value_from(_, _, _)
get_value_from(intervals, i, num) ==
    IF i > Len(intervals) THEN 0
    ELSE IF contains(intervals[i], num) THEN intervals[i].val
    ELSE get_value_from(intervals, i + 1, num)

get_value(c, num) == get_value_from(c.intervals, 1, num)

\* the for loop of contains_interval, from interval i on
RECURSIVE contains_walk(_, _, _)
contains_walk(intervals, i, to_check) ==
    IF i > Len(intervals) THEN FALSE
    ELSE LET interval == intervals[i]
         IN  IF superset(interval, to_check) THEN TRUE
             ELSE IF to_check.lb < interval.lb THEN FALSE
             ELSE IF to_check.lb > interval.ub
                  THEN contains_walk(intervals, i + 1, to_check)
             ELSE contains_walk(intervals, i + 1,
                                Interval_new(interval.ub, to_check.ub, to_check.val))

contains_interval(c, interval) == contains_walk(c.intervals, 1, interval)

\* every interval is pushed, whatever its count
counted_always(iv) == TRUE

\* if this_interval.get_value() >= 1
counted(iv) == iv.val >= 1

\* the for loop of to_vec_as_counter and the push after it, from interval i on
RECURSIVE counter_walk(_, _, _, _)
counter_walk(intervals, i, this_interval, new) ==
    LET pushed == IF counted(this_interval) THEN Append(new, this_interval) ELSE new
    IN  IF i > Len(intervals) THEN pushed
        ELSE LET next_count == val_to_count(intervals[i])
             IN  IF can_join(this_interval, next_count)
                 THEN counter_walk(intervals, i + 1,
                                   join(this_interval, next_count), new)
                 ELSE counter_walk(intervals, i + 1, next_count, pushed)

to_vec_as_counter(c) ==
    IF len(c) = 0 THEN <<>>
    ELSE counter_walk(c.intervals, 2, val_to_count(c.intervals[1]), <<>>)

\* ------------------------------------------------------------ the caller
\* an Option is a sequence of length 0 (None) or 1 (Some)
None == <<>>
Some(v) == <<v>>

NoRet == [fn |-> "none", val |-> <<>>]

swap(s, i, j) ==
    [n \in 1..Len(s) |-> IF n = i THEN s[j] ELSE IF n = j THEN s[i] ELSE s[n]]

Init ==
    /\ raw_ivs = <<>>
    /\ ic = None
    /\ ret = NoRet

\* the caller builds the input: input.push(Interval::new(a, b, w))
Push ==
    /\ ic = None
    /\ ret.fn = "none"
    /\ Len(raw_ivs) < MaxLen
    /\ \E a \in Coords, b \in Coords, w \in Weights :
          raw_ivs' = Append(raw_ivs, Interval_new(a, b, w))
    /\ UNCHANGED <<ic, ret>>

\* let c = combine_intervals(raw_ivs); the Vec is moved into the call
CombineIntervals ==
    /\ ic = None
    /\ ret.fn = "none"
    /\ ic' = Some(combine_intervals(raw_ivs))
    /\ UNCHANGED <<raw_ivs, ret>>

\* let r = combine_as_set(raw_ivs); the Vec is moved into the call
CombineAsSet ==
    /\ ic = None
    /\ ret.fn = "none"
    /\ ret' = [fn |-> "combine_as_set", val |-> combine_as_set(raw_ivs)]
    /\ UNCHANGED <<raw_ivs, ic>>

\* let c = combine_intervals(c.to_vec())
Recombine ==
    /\ ic # None
    /\ ret.fn = "none"
    /\ raw_ivs' = to_vec(ic[1])
    /\ ic' = Some(combine_intervals(raw_ivs'))
    /\ UNCHANGED ret

\* the same intervals are combined again in another order
Reorder ==
    /\ ic # None
    /\ ret.fn = "none"
    /\ \E i \in 1..(Len(raw_ivs) - 1) : raw_ivs' = swap(raw_ivs, i, i + 1)
    /\ ic' = Some(combine_intervals(raw_ivs'))
    /\ UNCHANGED ret

\* c.to_vec_as_set()
ToVecAsSet ==
    /\ ic # None
    /\ ret.fn = "none"
    /\ ret' = [fn |-> "to_vec_as_set", val |-> to_vec_as_set(ic[1])]
    /\ UNCHANGED <<raw_ivs, ic>>

\* c.total_value()
TotalValue ==
    /\ ic # None
    /\ ret.fn = "none"
    /\ ret' = [fn |-> "total_value", val |-> total_value(ic[1])]
    /\ UNCHANGED <<raw_ivs, ic>>

\* the points and bounds a query is made with: the coordinates and one
\* point beyond them on either side
QueryPoints == (0 - 1)..(MaxCoord + 1)

\* let c = IntervalCollection::new()
New ==
    /\ ic = None
    /\ ret.fn = "none"
    /\ raw_ivs = <<>>
    /\ ic' = Some(IntervalCollection_new)
    /\ UNCHANGED <<raw_ivs, ret>>

\* let c = combine_intervals(raw_ivs), by a caller that keeps no copy of the
\* Vec it moved into the call
Collect ==
    /\ ic = None
    /\ ret.fn = "none"
    /\ ic' = Some(combine_intervals(raw_ivs))
    /\ raw_ivs' = <<>>
    /\ UNCHANGED ret

\* let c = IntervalCollection::from_vec(v), v a clone of raw_ivs
FromVec ==
    /\ ic = None
    /\ ret.fn = "none"
    /\ ic' = Some(from_vec(raw_ivs))
    /\ UNCHANGED <<raw_ivs, ret>>

\* c.to_vec()
ToVec ==
    /\ ic # None
    /\ ret.fn = "none"
    /\ ret' = [fn |-> "to_vec", val |-> to_vec(ic[1])]
    /\ UNCHANGED <<raw_ivs, ic>>

\* c.len()
Length ==
    /\ ic # None
    /\ ret.fn = "none"
    /\ ret' = [fn |-> "len", val |-> len(ic[1])]
    /\ UNCHANGED <<raw_ivs, ic>>

\* c.get_lb()
GetLb ==
    /\ ic # None
    /\ ret.fn = "none"
    /\ ret' = [fn |-> "get_lb", out |-> get_lb(ic[1])]
    /\ UNCHANGED <<raw_ivs, ic>>

\* c.get_ub()
GetUb ==
    /\ ic # None
    /\ ret.fn = "none"
    /\ ret' = [fn |-> "get_ub", out |-> get_ub(ic[1])]
    /\ UNCHANGED <<raw_ivs, ic>>

\* c.get_bounds()
GetBounds ==
    /\ ic # None
    /\ ret.fn = "none"
    /\ ret' = [fn |-> "get_bounds", out |-> get_bounds(ic[1])]
    /\ UNCHANGED <<raw_ivs, ic>>

\* c.contains_num(num)
ContainsNum ==
    /\ ic # None
    /\ ret.fn = "none"
    /\ \E num \in QueryPoints :
          ret' = [fn |-> "contains_num", arg |-> num, val |-> contains_num(ic[1], num)]
    /\ UNCHANGED <<raw_ivs, ic>>

\* c.get_value(num)
GetValue ==
    /\ ic # None
    /\ ret.fn = "none"
    /\ \E num \in QueryPoints :
          ret' = [fn |-> "get_value", arg |-> num, val |-> get_value(ic[1], num)]
    /\ UNCHANGED <<raw_ivs, ic>>

\* c.contains_interval(Interval::new(a, b, w))
ContainsInterval ==
    /\ ic # None
    /\ ret.fn = "none"
    /\ \E a \in QueryPoints, b \in QueryPoints, w \in Weights :
          LET q == Interval_new(a, b, w)
          IN  ret' = [fn |-> "contains_interval", arg |-> q,
                      val |-> contains_interval(ic[1], q)]
    /\ UNCHANGED <<raw_ivs, ic>>

\* c.to_vec_as_counter()
ToVecAsCounter ==
    /\ ic # None
    /\ ret.fn = "none"
    /\ ret' = [fn |-> "to_vec_as_counter", val |-> to_vec_as_counter(ic[1])]
    /\ UNCHANGED <<raw_ivs, ic>>

\* Interval::new(a, b, w)
NewInterval ==
    /\ ic = None
    /\ ret.fn = "none"
    /\ raw_ivs = <<>>
    /\ \E a \in Coords, b \in Coords, w \in Weights :
          ret' = [fn |-> "Interval::new", arg |-> <<a, b, w>>,
                  val |-> Interval_new(a, b, w)]
    /\ UNCHANGED <<raw_ivs, ic>>

\* BaseInterval::new(a, b)
NewBaseInterval ==
    /\ ic = None
    /\ ret.fn = "none"
    /\ raw_ivs = <<>>
    /\ \E a \in Coords, b \in Coords :
          ret' = [fn |-> "BaseInterval::new", arg |-> <<a, b>>,
                  val |-> BaseInterval_new(a, b)]
    /\ UNCHANGED <<raw_ivs, ic>>

\* the two operands of a call a.f(b): the caller's two intervals
HasOperands == ic = None /\ ret.fn = "none" /\ Len(raw_ivs) = 2

\* a.overlaps(&b)
Overlaps ==
    /\ HasOperands
    /\ ret' = [fn |-> "overlaps", val |-> overlaps(raw_ivs[1], raw_ivs[2])]
    /\ UNCHANGED <<raw_ivs, ic>>

\* a.to_base().overlaps(b.to_base())
BaseOverlaps ==
    /\ HasOperands
    /\ ret' = [fn |-> "BaseInterval::overlaps",
                val |-> base_overlaps(to_base(raw_ivs[1]), to_base(raw_ivs[2]))]
    /\ UNCHANGED <<raw_ivs, ic>>

\* a.join(b)
Join ==
    /\ HasOperands
    /\ ret' = [fn |-> "join", val |-> join(raw_ivs[1], raw_ivs[2])]
    /\ UNCHANGED <<raw_ivs, ic>>

\* if a.can_join(b) { a.join(b) } on the plain intervals of a and b
BaseJoin ==
    /\ HasOperands
    /\ base_can_join(to_base(raw_ivs[1]), to_base(raw_ivs[2]))
    /\ ret' = [fn |-> "BaseInterval::join",
                val |-> base_join(to_base(raw_ivs[1]), to_base(raw_ivs[2]))]
    /\ UNCHANGED <<raw_ivs, ic>>

\* the caller holds [lb, ub, weight] triples, some with their bounds in
\* reverse order; raw_ivs is the Vec of Interval::new(lb, ub, weight) of
\* them. Both variants are called on the same triples.
CombineIntervalsValues ==
    /\ ic = None
    /\ ret.fn = "none"
    /\ \E rev \in SUBSET {i \in DOMAIN raw_ivs : raw_ivs[i].lb # raw_ivs[i].ub} :
          LET triples == [i \in DOMAIN raw_ivs |->
                             IF i \in rev
                             THEN <<raw_ivs[i].ub, raw_ivs[i].lb, raw_ivs[i].val>>
                             ELSE <<raw_ivs[i].lb, raw_ivs[i].ub, raw_ivs[i].val>>]
              input == [i \in DOMAIN triples |->
                           Interval_new(triples[i][1], triples[i][2], triples[i][3])]
          IN  /\ ic' = Some(combine_intervals(input))
              /\ ret' = [fn |-> "combine_intervals_values", arg |-> triples,
                         val |-> combine_intervals_values(triples)]
    /\ UNCHANGED raw_ivs

\* the input is split into x and y after its first n intervals and combined
\* in parts: combine_intervals(x), combine_intervals(y), and combine_intervals
\* of the two results' to_vec() one after the other
CombineParts ==
    /\ ic # None
    /\ ret.fn = "none"
    /\ \E n \in 0..Len(raw_ivs) :
          LET x == SubSeq(raw_ivs, 1, n)
              y == SubSeq(raw_ivs, n + 1, Len(raw_ivs))
              parts == to_vec(combine_intervals(x)) \o to_vec(combine_intervals(y))
          IN  ret' = [fn |-> "combine_parts", arg |-> n,
                      val |-> combine_intervals(parts)]
    /\ UNCHANGED <<raw_ivs, ic>>

\* the intervals a caller appends to an input it has combined before
cancelling(a, b, w) == <<Interval_new(a, b, w), Interval_new(a, b, 0 - w)>>
neutral(a, b, w) == <<Interval_new(a, b, w)>>

\* combine_intervals(x ++ [(a, b, w), (a, b, -w)]) on an input x that leaves
\* room for the two intervals in a Vec of MaxLen + 1
AppendCancelling ==
    /\ ic # None
    /\ ret.fn = "none"
    /\ Len(raw_ivs) < MaxLen
    /\ \E a \in Coords, b \in Coords, w \in Weights :
          ret' = [fn |-> "append_cancelling", arg |-> <<a, b, w>>,
                  val |-> combine_intervals(raw_ivs \o cancelling(a, b, w))]
    /\ UNCHANGED <<raw_ivs, ic>>

\* combine_intervals(x ++ [(a, b, w)]) with w = 0 or a = b
AppendNeutral ==
    /\ ic # None
    /\ ret.fn = "none"
    /\ Len(raw_ivs) < MaxLen
    /\ \E a \in Coords, b \in Coords, w \in Weights :
          /\ (w = 0) \/ (a = b)
          /\ ret' = [fn |-> "append_neutral", arg |-> <<a, b, w>>,
                     val |-> combine_intervals(raw_ivs \o neutral(a, b, w))]
    /\ UNCHANGED <<raw_ivs, ic>>

Next ==
    \/ Push
    \/ CombineIntervals
    \/ CombineAsSet
    \/ Recombine
    \/ Reorder
    \/ ToVecAsSet
    \/ TotalValue
    \/ New
    \/ Collect
    \/ FromVec
    \/ ToVec
    \/ Length
    \/ GetLb
    \/ GetUb
    \/ GetBounds
    \/ ContainsNum
    \/ GetValue
    \/ ContainsInterval
    \/ ToVecAsCounter
    \/ NewInterval
    \/ NewBaseInterval
    \/ Overlaps
    \/ BaseOverlaps
    \/ Join
    \/ BaseJoin
    \/ CombineIntervalsValues
    \/ CombineParts
    \/ AppendCancelling
    \/ AppendNeutral

\* every call a caller can make
SpecAll == Init /\ [][Next]_vars

\* one call of combine_intervals and a query of its result
NextCombine ==
    \/ Push
    \/ CombineIntervals
    \/ TotalValue

Spec == Init /\ [][NextCombine]_vars

\* combine_intervals called again on a rearranged input
NextAgain ==
    \/ Push
    \/ CombineIntervals
    \/ Recombine
    \/ Reorder

SpecAgain == Init /\ [][NextAgain]_vars

\* the two ways to the set of covered runs
NextSet ==
    \/ Push
    \/ CombineAsSet
    \/ CombineIntervals
    \/ ToVecAsSet

SpecSet == Init /\ [][NextSet]_vars

\* the queries and views of a collection that combine_intervals or new returned
NextQuery ==
    \/ Push
    \/ New
    \/ Collect
    \/ Length
    \/ GetLb
    \/ GetUb
    \/ GetBounds
    \/ ContainsNum
    \/ GetValue
    \/ ContainsInterval
    \/ ToVecAsSet
    \/ ToVecAsCounter

SpecQuery == Init /\ [][NextQuery]_vars

\* a collection built directly from a Vec
NextFromVec ==
    \/ Push
    \/ FromVec
    \/ ToVec
    \/ Length
    \/ GetLb
    \/ GetUb

SpecFromVec == Init /\ [][NextFromVec]_vars

\* the constructors and the operations on two intervals
NextPair ==
    \/ Push
    \/ NewInterval
    \/ NewBaseInterval
    \/ Overlaps
    \/ BaseOverlaps
    \/ Join
    \/ BaseJoin

SpecPair == Init /\ [][NextPair]_vars

\* the input combined at once and in two parts
NextParts ==
    \/ Push
    \/ CombineIntervals
    \/ CombineParts

SpecParts == Init /\ [][NextParts]_vars

\* the isize variant next to the generic one
NextValues ==
    \/ Push
    \/ CombineIntervalsValues

SpecValues == Init /\ [][NextValues]_vars

\* an input combined again with intervals of no net weight appended
NextCancel ==
    \/ Push
    \/ CombineIntervals
    \/ AppendCancelling
    \/ AppendNeutral

SpecCancel == Init /\ [][NextCancel]_vars

\* ------------------------------------------------------------- reference
\* the sum of the weights of the inputs that cover the cell [k, k+1]
RECURSIVE CoverageFrom(_, _, _)
CoverageFrom(x, k, i) ==
    IF i > Len(x) THEN 0
    ELSE (IF x[i].lb <= k /\ k + 1 <= x[i].ub THEN x[i].val ELSE 0)
         + CoverageFrom(x, k, i + 1)

Coverage(x, k) == CoverageFrom(x, k, 1)

Covers(iv, k) == iv.lb <= k /\ k + 1 <= iv.ub

Covering(s, k) == {i \in DOMAIN s : Covers(s[i], k)}

\* the maximal runs of cells of equal non-zero weight f[k], from cell k on
RECURSIVE RunsFrom(_, _, _)
RunsFrom(f, k, out) ==
    IF k \notin DOMAIN f THEN out
    ELSE IF f[k] = 0 THEN RunsFrom(f, k + 1, out)
    ELSE IF Len(out) > 0 /\ out[Len(out)].ub = k /\ out[Len(out)].val = f[k]
         THEN RunsFrom(f, k + 1,
                       Append(SubSeq(out, 1, Len(out) - 1),
                              [lb |-> out[Len(out)].lb, ub |-> k + 1, val |-> f[k]]))
         ELSE RunsFrom(f, k + 1, Append(out, [lb |-> k, ub |-> k + 1, val |-> f[k]]))

\* sum over the inputs of (ub - lb) * weight
RECURSIVE InputValueFrom(_, _)
InputValueFrom(x, i) ==
    IF i > Len(x) THEN 0
    ELSE (x[i].ub - x[i].lb) * x[i].val + InputValueFrom(x, i + 1)

Combined == ic # None
Out == ic[1].intervals

\* --------------------------------------------------------------- claims
\* C1: every cell whose summed input weight S is non-zero is covered by
\* exactly one interval of combine_intervals(x), of weight S; a cell with
\* S = 0 is covered by no interval of the result.
C1_CellWeight ==
    Combined =>
        \A k \in Cells :
            LET S == Coverage(raw_ivs, k)
                cov == Covering(Out, k)
            IN  IF S # 0
                THEN Cardinality(cov) = 1 /\ \A i \in cov : Out[i].val = S
                ELSE cov = {}

\* two inputs overlap on a cell and their weights add up to a non-zero sum
C1_Witness ==
    /\ Combined
    /\ \E k \in Cells :
          /\ Cardinality(Covering(raw_ivs, k)) >= 2
          /\ Coverage(raw_ivs, k) # 0
          /\ \E i \in Covering(Out, k) : Out[i].val = Coverage(raw_ivs, k)
          /\ \E n \in Covering(raw_ivs, k) : raw_ivs[n].val # Coverage(raw_ivs, k)

\* C2: the intervals of combine_intervals(x) have lb < ub, are in ascending
\* order of lower bound and are pairwise disjoint (a.ub <= b.lb for every
\* adjacent pair).
C2_SortedDisjoint ==
    Combined =>
        /\ \A i \in DOMAIN Out : Out[i].lb < Out[i].ub
        /\ \A i \in 1..(Len(Out) - 1) :
              Out[i].ub <= Out[i + 1].lb /\ Out[i].lb < Out[i + 1].lb

\* an input given in descending order yields several intervals
C2_Witness ==
    /\ Combined
    /\ Len(raw_ivs) >= 2
    /\ raw_ivs[1].lb > raw_ivs[2].lb
    /\ Len(Out) >= 2

\* C3: two adjacent intervals of combine_intervals(x) that share a boundary
\* never carry the same weight; two touching inputs of equal weight leave
\* no split point at their common boundary unless another input ends there.
C3_NoEqualNeighbours ==
    Combined =>
        /\ \A i \in 1..(Len(Out) - 1) :
              Out[i].ub = Out[i + 1].lb => Out[i].val # Out[i + 1].val
        /\ \A i \in DOMAIN raw_ivs, j \in DOMAIN raw_ivs :
              ( /\ i # j
                /\ raw_ivs[i].ub = raw_ivs[j].lb
                /\ raw_ivs[i].val = raw_ivs[j].val
                /\ raw_ivs[i].lb < raw_ivs[i].ub
                /\ raw_ivs[j].lb < raw_ivs[j].ub
                /\ \A n \in DOMAIN raw_ivs \ {i, j} :
                      raw_ivs[n].lb # raw_ivs[i].ub /\ raw_ivs[n].ub # raw_ivs[i].ub )
              => \A o \in DOMAIN Out :
                    Out[o].lb # raw_ivs[i].ub /\ Out[o].ub # raw_ivs[i].ub

\* two touching inputs of equal weight came out as one interval
C3_Witness ==
    /\ Combined
    /\ Len(raw_ivs) = 2
    /\ raw_ivs[1].lb < raw_ivs[1].ub
    /\ raw_ivs[1].ub = raw_ivs[2].lb
    /\ raw_ivs[2].lb < raw_ivs[2].ub
    /\ raw_ivs[1].val = raw_ivs[2].val
    /\ raw_ivs[1].val # 0
    /\ Out = <<[lb |-> raw_ivs[1].lb, ub |-> raw_ivs[2].ub, val |-> raw_ivs[1].val]>>

\* C4: combining the intervals of a result again gives the same result.
C4_Idempotent ==
    [][(Combined /\ ic' # None /\ raw_ivs' = to_vec(ic[1])) => ic' = ic]_vars

\* a result of more intervals than the caller can push was combined again
C4_Witness ==
    /\ Combined
    /\ Len(raw_ivs) > MaxLen
    /\ raw_ivs = Out

\* C5: total_value of the result is the sum over the inputs of
\* (ub - lb) * weight.
C5_Conservation ==
    ret.fn = "total_value" => ret.val = InputValueFrom(raw_ivs, 1)

\* overlapping inputs, and a total that is not zero
C5_Witness ==
    /\ ret.fn = "total_value"
    /\ ret.val # 0
    /\ \E k \in Cells : Cardinality(Covering(raw_ivs, k)) >= 2
    /\ Len(Out) >= 2

\* C6: combining the same intervals in another order gives the same result
\* (every permutation is a product of exchanges of two neighbours).
C6_OrderIndependent ==
    [][( /\ Combined
         /\ ic' # None
         /\ \E i \in 1..(Len(raw_ivs) - 1) : raw_ivs' = swap(raw_ivs, i, i + 1) )
       => ic' = ic]_vars

\* two different inputs, the later one first, and a result that is not empty
C6_Witness ==
    /\ Combined
    /\ Len(raw_ivs) = 2
    /\ raw_ivs[1] # raw_ivs[2]
    /\ raw_ivs[2].lb < raw_ivs[1].lb
    /\ raw_ivs[2].ub > raw_ivs[1].lb
    /\ Len(Out) >= 1

\* C7: the result is a function of the net coverage alone: it is the list
\* of maximal runs of cells of equal non-zero summed weight, so two inputs
\* of equal coverage on every cell yield equal collections.
C7_CoverageOnly ==
    Combined => Out = RunsFrom([k \in Cells |-> Coverage(raw_ivs, k)], 0, <<>>)

\* opposite weights that overlap: no interval of the result has the bounds of an input
C7_Witness ==
    /\ Combined
    /\ Len(Out) >= 2
    /\ \E n \in DOMAIN raw_ivs : raw_ivs[n].val < 0
    /\ \E n \in DOMAIN raw_ivs : raw_ivs[n].val > 0
    /\ \A o \in DOMAIN Out : \A n \in DOMAIN raw_ivs :
          <<Out[o].lb, Out[o].ub>> # <<raw_ivs[n].lb, raw_ivs[n].ub>>

\* C8: a cell is covered by an interval of combine_as_set(x) exactly when
\* the summed weight of the inputs covering it is strictly positive.
C8_SetCoversPositive ==
    ret.fn = "combine_as_set" =>
        \A k \in Cells : (Covering(ret.val, k) # {}) <=> (Coverage(raw_ivs, k) > 0)

\* one cell of positive net weight is covered, one of negative net weight is not
C8_Witness ==
    /\ ret.fn = "combine_as_set"
    /\ \E k \in Cells : Coverage(raw_ivs, k) > 0 /\ Covering(ret.val, k) # {}
    /\ \E k \in Cells : Coverage(raw_ivs, k) < 0 /\ Covering(ret.val, k) = {}

\* C9: the intervals of combine_as_set(x) have lb < ub and are in ascending
\* order with a.ub < b.lb for consecutive a, b: runs that touch are merged.
C9_SetRunsMerged ==
    ret.fn = "combine_as_set" =>
        /\ \A i \in DOMAIN ret.val : ret.val[i].lb < ret.val[i].ub
        /\ \A i \in 1..(Len(ret.val) - 1) : ret.val[i].ub < ret.val[i + 1].lb

\* two touching runs of different positive weight came out as one interval
C9_Witness ==
    /\ ret.fn = "combine_as_set"
    /\ Len(ret.val) = 1
    /\ \E k \in Cells :
          /\ k + 1 \in Cells
          /\ Covers(ret.val[1], k)
          /\ Covers(ret.val[1], k + 1)
          /\ Coverage(raw_ivs, k) # Coverage(raw_ivs, k + 1)

\* C10: c.to_vec_as_set() of c = combine_intervals(x) equals combine_as_set(x).
C10_BothSetImplsAgree ==
    ret.fn = "to_vec_as_set" => ret.val = combine_as_set(raw_ivs)

\* the weight a collection gives to the cell [k, k+1]: the sum of the values
\* of its intervals that cover the cell (zero when none does)
RECURSIVE CellWeightFrom(_, _, _)
CellWeightFrom(c, k, i) ==
    IF i > Len(c) THEN 0
    ELSE (IF Covers(c[i], k) THEN c[i].val ELSE 0) + CellWeightFrom(c, k, i + 1)

CellWeight(c, k) == CellWeightFrom(c, k, 1)

\* the cells a query range can reach
QueryCells == (0 - 1)..MaxCoord

\* C11: c.to_vec_as_set() of a combined collection c is an ascending list of
\* disjoint plain intervals that covers a cell exactly when c has strictly
\* positive weight there; ranges of negative weight are not covered.
C11_SetViewPositive ==
    (Combined /\ ret.fn = "to_vec_as_set") =>
        /\ \A k \in Cells : (Covering(ret.val, k) # {}) <=> (CellWeight(Out, k) > 0)
        /\ \A i \in DOMAIN ret.val : ret.val[i].lb < ret.val[i].ub
        /\ \A i \in 1..(Len(ret.val) - 1) : ret.val[i].ub <= ret.val[i + 1].lb

\* C12: c.to_vec_as_counter() covers a cell exactly when c has weight w >= 1
\* there, by one interval of count w, and no interval of it has count < 1.
C12_CounterView ==
    ret.fn = "to_vec_as_counter" =>
        /\ \A k \in Cells :
              LET w == CellWeight(Out, k)
                  cov == Covering(ret.val, k)
              IN  /\ (cov # {}) <=> (w >= 1)
                  /\ Cardinality(cov) <= 1
                  /\ \A i \in cov : ret.val[i].val = w
        /\ \A i \in DOMAIN ret.val : ret.val[i].val >= 1

\* a collection with a negative and a positive interval: only the positive
\* one is in the counter view
C12_Witness ==
    /\ ret.fn = "to_vec_as_counter"
    /\ \E i \in DOMAIN Out : Out[i].val < 0
    /\ \E i \in DOMAIN Out : Out[i].val >= 1
    /\ Len(ret.val) >= 1
    /\ Len(ret.val) < Len(Out)

\* the closed ranges of a and b have a point in common
Intersect(a, b) == a.lb <= b.ub /\ b.lb <= a.ub

\* C13: a.overlaps(b) is true exactly when the closed ranges of a and b have
\* a point in common, also when one lies strictly inside the other, and it
\* is symmetric in a and b; for weighted and for plain intervals.
C13_OverlapsIffIntersect ==
    /\ ret.fn = "overlaps" =>
          /\ ret.val = Intersect(raw_ivs[1], raw_ivs[2])
          /\ ret.val = overlaps(raw_ivs[2], raw_ivs[1])
    /\ ret.fn = "BaseInterval::overlaps" =>
          /\ ret.val = Intersect(raw_ivs[1], raw_ivs[2])
          /\ ret.val = base_overlaps(to_base(raw_ivs[2]), to_base(raw_ivs[1]))

\* the operands of a.join(b) touch at a boundary and differ in their bounds
Adjacent(a, b) ==
    /\ (a.ub = b.lb \/ b.ub = a.lb)
    /\ <<a.lb, a.ub>> # <<b.lb, b.ub>>

Least(x, y) == IF x <= y THEN x ELSE y
Greatest(x, y) == IF x >= y THEN x ELSE y

\* C14 as stated: the join of two boundary-adjacent intervals spans both and
\* carries the weight of the operand with the smaller lower bound.
C14_JoinLowerSideWeight ==
    (ret.fn = "join" /\ Adjacent(raw_ivs[1], raw_ivs[2])) =>
        LET a == raw_ivs[1]
            b == raw_ivs[2]
        IN  /\ ret.val.lb = Least(a.lb, b.lb)
            /\ ret.val.ub = Greatest(a.ub, b.ub)
            /\ a.lb < b.lb => ret.val.val = a.val
            /\ b.lb < a.lb => ret.val.val = b.val

\* a has zero width and sits on the lower bound of b
PointOnLowerBound(a, b) == a.lb = a.ub /\ a.ub = b.lb /\ b.lb < b.ub

\* C14 as amended: the join of two boundary-adjacent intervals carries the
\* weight of the receiver a, whichever operand has the smaller lower bound;
\* it spans both operands, except that a zero-width a on the lower bound of
\* b is returned as it is.
C14_JoinReceiverWeight ==
    (ret.fn = "join" /\ Adjacent(raw_ivs[1], raw_ivs[2])) =>
        LET a == raw_ivs[1]
            b == raw_ivs[2]
        IN  IF PointOnLowerBound(a, b)
            THEN ret.val = a
            ELSE ret.val = [lb |-> Least(a.lb, b.lb), ub |-> Greatest(a.ub, b.ub),
                            val |-> a.val]

\* the argument is the lower of two adjacent intervals of different weight
C14_Witness ==
    /\ ret.fn = "join"
    /\ Adjacent(raw_ivs[1], raw_ivs[2])
    /\ raw_ivs[2].lb < raw_ivs[2].ub
    /\ raw_ivs[2].ub = raw_ivs[1].lb
    /\ raw_ivs[1].lb < raw_ivs[1].ub
    /\ raw_ivs[1].val # raw_ivs[2].val
    /\ ret.val = [lb |-> raw_ivs[2].lb, ub |-> raw_ivs[1].ub, val |-> raw_ivs[1].val]

\* C20: Interval::new(a, b, w) equals Interval::new(b, a, w), has lb the
\* smaller and ub the larger of a and b, keeps w as it is, and has lb < ub
\* whenever a # b; BaseInterval::new(a, b) orders its bounds the same way.
C20_NewCanonical ==
    /\ ret.fn = "Interval::new" =>
          LET a == ret.arg[1]
              b == ret.arg[2]
              w == ret.arg[3]
          IN  /\ ret.val = Interval_new(b, a, w)
              /\ ret.val.lb = Least(a, b)
              /\ ret.val.ub = Greatest(a, b)
              /\ ret.val.val = w
              /\ a # b => ret.val.lb < ret.val.ub
    /\ ret.fn = "BaseInterval::new" =>
          LET a == ret.arg[1]
              b == ret.arg[2]
          IN  /\ ret.val = BaseInterval_new(b, a)
              /\ ret.val.lb = Least(a, b)
              /\ ret.val.ub = Greatest(a, b)
              /\ a # b => ret.val.lb < ret.val.ub

\* bounds given in descending order with a negative weight
C20_Witness ==
    /\ ret.fn = "Interval::new"
    /\ ret.arg[1] > ret.arg[2]
    /\ ret.arg[3] < 0
    /\ ret.val = [lb |-> ret.arg[2], ub |-> ret.arg[1], val |-> ret.arg[3]]

\* every point of the closed range [lb, ub] lies in some interval of c: for
\* lb < ub every cell of the range is inside one interval, for lb = ub the
\* point is
RangeCovered(c, lb, ub) ==
    IF lb = ub
    THEN \E i \in DOMAIN c : c[i].lb <= lb /\ lb <= c[i].ub
    ELSE \A k \in lb..(ub - 1) : Covering(c, k) # {}

\* C15: on a combined collection c, c.contains_interval(q) is true exactly
\* when every point of [q.lb, q.ub] lies in some interval of c, and the
\* answer is the same for every weight of q.
C15_ContainsInterval ==
    ret.fn = "contains_interval" =>
        /\ ret.val = RangeCovered(Out, ret.arg.lb, ret.arg.ub)
        /\ \A w \in Weights :
              contains_interval(ic[1], [ret.arg EXCEPT !.val = w]) = ret.val

\* a query that no single interval contains is covered by touching intervals
C15_Witness ==
    /\ ret.fn = "contains_interval"
    /\ ret.val = TRUE
    /\ ret.arg.lb < ret.arg.ub
    /\ \A i \in DOMAIN Out : ~(Out[i].lb <= ret.arg.lb /\ ret.arg.ub <= Out[i].ub)

\* the intervals of c whose closed range contains x
Hits(c, x) == {i \in DOMAIN c : c[i].lb <= x /\ x <= c[i].ub}

\* C16: c.get_value(x) is the weight of the first interval of c whose closed
\* range contains x and zero when there is none; on a boundary shared by two
\* intervals it is the weight of the lower one.
C16_GetValueFirst ==
    ret.fn = "get_value" =>
        /\ Hits(Out, ret.arg) = {} => ret.val = 0
        /\ Hits(Out, ret.arg) # {} => ret.val = Out[Min(Hits(Out, ret.arg))].val
        /\ \A i \in 1..(Len(Out) - 1) :
              (Out[i].ub = ret.arg /\ Out[i + 1].lb = ret.arg) => ret.val = Out[i].val

\* a point on the boundary of two intervals of different weight
C16_Witness ==
    /\ ret.fn = "get_value"
    /\ \E i \in 1..(Len(Out) - 1) :
          /\ Out[i].ub = ret.arg
          /\ Out[i + 1].lb = ret.arg
          /\ Out[i].val # Out[i + 1].val
          /\ ret.val = Out[i].val

\* C17: membership is closed at both ends: c.contains_num(x) is true exactly
\* when lb <= x <= ub for some interval of c, so the lowest lower bound and
\* the highest upper bound are contained and a point outside the bounds or
\* in a gap is not.
C17_ClosedMembership ==
    ret.fn = "contains_num" =>
        /\ ret.val = (Hits(Out, ret.arg) # {})
        /\ \A i \in DOMAIN Out :
              (ret.arg = Out[i].lb \/ ret.arg = Out[i].ub) => ret.val = TRUE
        /\ (Len(Out) > 0 /\ (ret.arg < Out[1].lb \/ ret.arg > Out[Len(Out)].ub))
              => ret.val = FALSE
        /\ \A i \in 1..(Len(Out) - 1) :
              (Out[i].ub < ret.arg /\ ret.arg < Out[i + 1].lb) => ret.val = FALSE

\* the highest upper bound of a collection of several intervals is contained
C17_Witness ==
    /\ ret.fn = "contains_num"
    /\ Len(Out) >= 2
    /\ ret.arg = Out[Len(Out)].ub
    /\ ret.val = TRUE

\* C18: on a collection without intervals get_lb, get_ub and get_bounds
\* panic and return nothing, len returns 0, and to_vec_as_set and
\* to_vec_as_counter return empty lists.
C18_EmptyCollection ==
    (Combined /\ Len(Out) = 0) =>
        /\ ret.fn \in {"get_lb", "get_ub", "get_bounds"} => ret.out.panic
        /\ ret.fn = "len" => ret.val = 0
        /\ ret.fn \in {"to_vec_as_set", "to_vec_as_counter"} => ret.val = <<>>

\* get_lb was called on a collection without intervals
C18_Witness ==
    /\ Combined
    /\ Len(Out) = 0
    /\ ret.fn = "get_lb"
    /\ ret.out.panic

\* C19: from_vec(v) keeps v as it is: to_vec() returns v element for
\* element, len() is the length of v, get_lb() is the lb of the first
\* element and get_ub() the ub of the last, also for unsorted or
\* overlapping v.
C19_FromVecVerbatim ==
    Combined =>
        /\ ret.fn = "to_vec" => ret.val = raw_ivs
        /\ ret.fn = "len" => ret.val = Len(raw_ivs)
        /\ (ret.fn = "get_lb" /\ Len(raw_ivs) > 0) =>
              (~ret.out.panic /\ ret.out.val = raw_ivs[1].lb)
        /\ (ret.fn = "get_ub" /\ Len(raw_ivs) > 0) =>
              (~ret.out.panic /\ ret.out.val = raw_ivs[Len(raw_ivs)].ub)

\* a Vec of two overlapping intervals in descending order came back unchanged
C19_Witness ==
    /\ Combined
    /\ ret.fn = "to_vec"
    /\ Len(raw_ivs) = 2
    /\ raw_ivs[1].lb > raw_ivs[2].lb
    /\ raw_ivs[1].lb < raw_ivs[2].ub
    /\ ret.val = raw_ivs

C22_BaseJoinSpans ==
    ret.fn = "BaseInterval::join" =>
        LET a == to_base(raw_ivs[1])
            b == to_base(raw_ivs[2])
        IN  /\ ret.val = [lb |-> Least(a.lb, b.lb), ub |-> Greatest(a.ub, b.ub)]
            /\ ret.val = base_join(b, a)

\* C23: the counter view of a combined collection is in ascending order
\* and pairwise disjoint, no two consecutive intervals of it share a boundary
\* and a count, and no interval of it reaches over a cell where the
\* collection has another count, so positive runs on either side of a range
\* of count zero stay apart.
C23_CounterMerged ==
    ret.fn = "to_vec_as_counter" =>
        /\ \A i \in DOMAIN ret.val : ret.val[i].lb < ret.val[i].ub
        /\ \A i \in 1..(Len(ret.val) - 1) :
              /\ ret.val[i].ub <= ret.val[i + 1].lb
              /\ ret.val[i].ub = ret.val[i + 1].lb => ret.val[i].val # ret.val[i + 1].val
        /\ \A i \in DOMAIN ret.val : \A k \in Cells :
              Covers(ret.val[i], k) => CellWeight(Out, k) = ret.val[i].val

\* two runs of the same count with a range of count zero between them came
\* out as two intervals
C23_Witness ==
    /\ ret.fn = "to_vec_as_counter"
    /\ Len(ret.val) = 2
    /\ ret.val[1].ub < ret.val[2].lb
    /\ ret.val[1].val = ret.val[2].val
    /\ \A k \in Cells :
          (ret.val[1].ub <= k /\ k + 1 <= ret.val[2].lb) => CellWeight(Out, k) < 1

\* C24: no interval of combine_intervals(x) has weight zero, whatever x
\* holds: intervals of weight zero, of width zero, or weights that cancel on
\* a part of their range.
C24_NoZeroWeight ==
    Combined => \A i \in DOMAIN Out : Out[i].val # 0

\* two inputs cancel on the cells they share and the rest of them is emitted
C24_Witness ==
    /\ Combined
    /\ \E k \in Cells :
          /\ Cardinality(Covering(raw_ivs, k)) >= 2
          /\ Coverage(raw_ivs, k) = 0
          /\ Covering(Out, k) = {}
    /\ Len(Out) >= 2

\* the entries of a HashMap from (lb, ub) to a value, as (lb, ub, value)
Entries(m) == {<<k[1], k[2], m[k]>> : k \in DOMAIN m}

\* C25: on the same triples, also with bounds in reverse order, the entries
\* of combine_intervals_values are the intervals of the generic
\* combine_intervals on Interval::new of the triples.
C25_ValuesVariantAgrees ==
    ret.fn = "combine_intervals_values" =>
        /\ Entries(ret.val) = {to_tuple(Out[i]) : i \in DOMAIN Out}
        /\ Cardinality(DOMAIN ret.val) = Len(Out)

\* a triple with its bounds in reverse order overlaps another one
C25_Witness ==
    /\ ret.fn = "combine_intervals_values"
    /\ \E i \in DOMAIN ret.arg :
          /\ ret.arg[i][1] > ret.arg[i][2]
          /\ ret.arg[i][3] # 0
    /\ \E k \in Cells : Cardinality(Covering(raw_ivs, k)) >= 2
    /\ Len(Out) >= 2
    /\ Cardinality(DOMAIN ret.val) = Len(Out)

\* the intervals that were appended in the call ret reports
Appended ==
    IF ret.fn = "append_cancelling"
    THEN cancelling(ret.arg[1], ret.arg[2], ret.arg[3])
    ELSE neutral(ret.arg[1], ret.arg[2], ret.arg[3])

\* C26: appending (a, b, w) and (a, b, -w), or one interval of weight zero
\* or of width zero, to x leaves combine_intervals(x) as it is and adds no
\* coordinate to the points of the sweep.
C26_CancellingNoEffect ==
    ret.fn \in {"append_cancelling", "append_neutral"} =>
        /\ ret.val = ic[1]
        /\ intervals_to_points(raw_ivs \o Appended) = intervals_to_points(raw_ivs)

\* a cancelling pair of non-zero weight has a bound strictly inside an
\* interval of the result, which is as it was
C26_Witness ==
    /\ ret.fn = "append_cancelling"
    /\ ret.arg[3] # 0
    /\ ret.arg[1] # ret.arg[2]
    /\ \E i \in DOMAIN Out : Out[i].lb < ret.arg[1] /\ ret.arg[1] < Out[i].ub
    /\ ret.val = ic[1]

\* C27: in the sweep of combine_intervals the running total pushed with a
\* coordinate is the summed weight of the inputs covering the cell just
\* above that coordinate; with the last coordinate it is zero, and every
\* cell of non-zero summed weight lies between two consecutive coordinates.
C27_RunningTotal ==
    Combined =>
        LET new_map == new_map_of(raw_ivs)
        IN  /\ \A i \in DOMAIN new_map :
                  new_map[i][2] = Coverage(raw_ivs, new_map[i][1])
            /\ Len(new_map) > 0 => new_map[Len(new_map)][2] = 0
            /\ \A k \in Cells :
                  Coverage(raw_ivs, k) # 0 =>
                      \E i \in 1..(Len(new_map) - 1) :
                          new_map[i][1] <= k /\ k + 1 <= new_map[i + 1][1]

\* four coordinates survive and the running total rises above every delta
C27_Witness ==
    /\ Combined
    /\ Len(new_map_of(raw_ivs)) = 4
    /\ new_map_of(raw_ivs)[2][2] = 2
    /\ new_map_of(raw_ivs)[4][2] = 0
    /\ Len(Out) = 3

====
